---- MODULE Spec2Model ----
(***************************************************************************)
(* A model of the NEF parser (nef_parser.c, nef.h, tiff.h, exif.h).        *)
(*                                                                         *)
(* The file buffer is a sequence of bytes (0..255); byte k of the C buffer *)
(* is buffer[k + 1].  main() is cut into one action per step of its        *)
(* straight-line control flow: the header test, one step per entry of each *)
(* of the three directory loops, the sub-IFD / next-IFD reads, the         *)
(* maker-note signature test and the lens-data post-pass.                  *)
(*                                                                         *)
(* uint32_t values are held as their 32-bit two's-complement pattern: a    *)
(* number v < 0 stands for the unsigned value 2^32 + v.  Add32, Sub32 and  *)
(* ULt are the wrapping sum, the wrapping difference and the unsigned      *)
(* comparison on that encoding.                                            *)
(*                                                                         *)
(* The source never compares an offset with the buffer's size.  A read or  *)
(* write outside the buffer is undefined behaviour: the model lets the     *)
(* process either stop (pc = "Crashed") or go on with a garbage byte drawn *)
(* from GarbageBytes in place of every byte outside the buffer, and counts *)
(* the steps that did so in oob.                                           *)
(***************************************************************************)
EXTENDS Integers, Sequences, FiniteSets, TLC

(***************************************************************************)
(* Bounds of the model.                                                    *)
(***************************************************************************)
\* Steps that may go on after an out-of-bounds access; past it the process stops.
MaxOOB == 2
\* Longest data block given to the cipher harness.
MaxDataLen == 3

(***************************************************************************)
(* Constants of the program.                                               *)
(***************************************************************************)
TIFF_MAGIC == 42
TIFF_LITTLE_ENDIAN == 18761
TIFF_BIG_ENDIAN == 19789
TIFF_TYPE_ASCII == 2
TIFF_TYPE_RATIONAL == 5
LENS_DATA_0201 == 201
EXIF_TAG_MODEL == 272
EXIF_TAG_SUBIFD_OFFSET == 330
EXIF_TAG_EXPOSURE_TIME == 33434
EXIF_TAG_FNUMBER == 33437
EXIF_TAG_EXIF_OFFSET == 34665
EXIF_TAG_DATE_TIME_ORIGINAL == 36867
EXIF_TAG_METERING_MODE == 37383
EXIF_TAG_FOCAL_LENGTH == 37386
EXIF_TAG_MAKERNOTE == 37500
NIKON_TAG_MAKERNOTE_VERSION == 1
NIKON_TAG_QUALITY == 4
NIKON_TAG_WHITE_BALANCE == 5
NIKON_TAG_FOCUS_MODE == 7
NIKON_TAG_SERIAL_NUMBER == 29
NIKON_TAG_ISO_INFO == 37
NIKON_TAG_LENS_TYPE == 131
NIKON_TAG_LENS_DATA == 152
NIKON_TAG_SHUTTER_COUNT == 167
\* sizeof(nef_header_t), sizeof(struct ifd_entry_t), sizeof(struct makernote_header_t)
SizeofTiffHeader == 8
SizeofIfdEntry == 12
SizeofMakernoteHeader == 18
\* "Nikon" with its terminator, the bytes strcmp compares
MAKERNOTE_MAGIC == <<78, 105, 107, 111, 110, 0>>
\* The initial value of ck in decrypt
CK_INIT == 96
\* Referenced by main (nef_parser.c:597) and defined in no file of src/; the
\* position of LensIDNumber in the LensData 0204 layout the source cites.
LENS_ID_OFFSET == 12

VARIABLES
  buffer,            \* the file contents (main's buffer), rewritten only by decrypt
  pc,                \* where main is
  i,                 \* the index of the running directory loop
  offset,            \* main's uint32_t offset
  subifd_offset,     \* main's subifd_offset
  exif_offset,       \* main's exif_offset
  makernote_offset,  \* the file-scope makernote_offset
  tiff_offset,       \* the file-scope tiff_offset
  lens_data,         \* main's lens_data: <<>> is NULL, <<k>> points at maker-note entry k
  lens_type,         \* main's lens_type
  shutter_count,     \* main's shutter_count
  serial_number,     \* main's serial_number: <<>> is NULL, <<a>> the address of the string
  out,               \* what was printed on stdout, in order
  err,               \* what was printed on stderr, in order
  oob,               \* steps that accessed a byte outside the buffer
  decrypt_calls,     \* the calls of decrypt made by main, in order
  c_data,            \* cipher harness: the data block given
  c_serial,          \* cipher harness: the serial-number string
  c_shutter,         \* cipher harness: the shutter count
  c_out,             \* cipher harness: the block after c_pass calls of decrypt
  c_pass,            \* cipher harness: calls of decrypt made
  l_key,             \* lookup harness: the 8-byte key given
  l_model,           \* lookup harness: what nikon_lens_id_lookup returned
  l_done             \* lookup harness: whether the lookup was made

parseVars == <<buffer, pc, i, offset, subifd_offset, exif_offset, makernote_offset,
               tiff_offset, lens_data, lens_type, shutter_count, serial_number,
               out, err, oob, decrypt_calls>>
cipherVars == <<c_data, c_serial, c_shutter, c_out, c_pass>>
lookupVars == <<l_key, l_model, l_done>>
vars == <<parseVars, cipherVars, lookupVars>>

(***************************************************************************)
(* Machine arithmetic.                                                     *)
(***************************************************************************)
MaxInt32 == 2147483647

\* a + b on uint32_t patterns, wrapping at 2^32
Add32(a, b) ==
  IF a >= 0 /\ b >= 0
    THEN IF a <= MaxInt32 - b THEN a + b
         ELSE ((a - MaxInt32) - 1) + ((b - MaxInt32) - 1)
  ELSE IF a < 0 /\ b < 0
    THEN IF ((a + MaxInt32) + 1) + b >= 0 THEN a + b
         ELSE ((a + MaxInt32) + 1) + ((b + MaxInt32) + 1)
  ELSE a + b

\* a - b on uint32_t patterns, wrapping at 2^32, for 0 <= b < 2^31
Sub32(a, b) ==
  IF a < 0 /\ ((a + MaxInt32) + 1) - b < 0
    THEN (((a + MaxInt32) + 1) - b) + MaxInt32 + 1
    ELSE a - b

\* a < b as uint32_t
ULt(a, b) == IF (a < 0) = (b < 0) THEN a < b ELSE b < 0

\* a >= b as uint32_t
UGe(a, b) == ~ULt(a, b)

RECURSIVE Xor(_, _)
\* a ^ b for a, b >= 0
Xor(a, b) ==
  IF a = 0 THEN b
  ELSE IF b = 0 THEN a
  ELSE ((a + b) % 2) + 2 * Xor(a \div 2, b \div 2)

\* byte k (0..3) of the uint32_t pattern v: (v >> (k * 8)) & 0xFF
ByteOf(v, k) == (v \div (256 ^ k)) % 256

(***************************************************************************)
(* The cipher: xlat, strtoull, decrypt.                                    *)
(***************************************************************************)
xlat0 ==
  << 193, 191, 109,  13,  89, 197,  19, 157, 131,  97, 107,  79, 199, 127,  61,  61,
      83,  89, 227, 199, 233,  47, 149, 167, 149,  31, 223, 127,  43,  41, 199,  13,
     223,   7, 239, 113, 137,  61,  19,  61,  59,  19, 251,  13, 137, 193, 101,  31,
     179,  13, 107,  41, 227, 251, 239, 163, 107,  71, 127, 149,  53, 167,  71,  79,
     199, 241,  89, 149,  53,  17,  41,  97, 241,  61, 179,  43,  13,  67, 137, 193,
     157, 157, 137, 101, 241, 233, 223, 191,  61, 127,  83, 151, 229, 233, 149,  23,
      29,  61, 139, 251, 199, 227, 103, 167,   7, 241, 113, 167,  83, 181,  41, 137,
     229,  43, 167,  23,  41, 233,  79, 197, 101, 109, 107, 239,  13, 137,  73,  47,
     179,  67,  83, 101,  29,  73, 163,  19, 137,  89, 239, 107, 239, 101,  29,  11,
      89,  19, 227,  79, 157, 179,  41,  67,  43,   7,  29, 149,  89,  89,  71, 251,
     229, 233,  97,  71,  47,  53, 127,  23, 127, 239, 127, 149, 149, 113, 211, 163,
      11, 113, 163, 173,  11,  59, 181, 251, 163, 191,  79, 131,  29, 173, 233,  47,
     113, 101, 163, 229,   7,  53,  61,  13, 181, 233, 229,  71,  59, 157, 239,  53,
     163, 191, 179, 223,  83, 211, 151,  83,  73, 113,   7,  53,  97, 113,  47,  67,
      47,  17, 223,  23, 151, 251, 149,  59, 127, 107, 211,  37, 191, 173, 199, 197,
     197, 181, 139, 239,  47, 211,   7, 107,  37,  73, 149,  37,  73, 109, 113, 199 >>

xlat1 ==
  << 167, 188, 201, 173, 145, 223, 133, 229, 212, 120, 213,  23,  70, 124,  41,  76,
      77,   3, 233,  37, 104,  17, 134, 179, 189, 247, 111,  97,  34, 162,  38,  52,
      42, 190,  30,  70,  20, 104, 157,  68,  24, 194,  64, 244, 126,  95,  27, 173,
      11, 148, 182, 103, 180,  11, 225, 234, 149, 156, 102, 220, 231,  93, 108,   5,
     218, 213, 223, 122, 239, 246, 219,  31, 130,  76, 192, 104,  71, 161, 189, 238,
      57,  80,  86,  74, 221, 223, 165, 248, 198, 218, 202, 144, 202,   1,  66, 157,
     139,  12, 115,  67, 117,   5, 148, 222,  36, 179, 128,  52, 229,  44, 220, 155,
      63, 202,  51,  69, 208, 219,  95, 245,  82, 195,  33, 218, 226,  34, 114, 107,
      62, 208,  91, 168, 135, 140,   6,  93,  15, 221,   9,  25, 147, 208, 185, 252,
     139,  15, 132,  96,  51,  28, 155,  69, 241, 240, 163, 148,  58,  18, 119,  51,
      77,  68, 120,  40,  60, 158, 253, 101,  87,  22, 148, 107, 251,  89, 208, 200,
      34,  54, 219, 210,  99, 152,  67, 161,   4, 135, 134, 247, 166,  38, 187, 214,
      89,  77, 191, 106,  46, 170,  43, 239, 230, 120, 182,  78, 224,  47, 220, 124,
     190,  87,  25,  50, 126,  42, 208, 184, 186,  41,   0,  60,  82, 125, 168,  73,
      59,  45, 235,  37,  73, 250, 163, 170,  57, 167, 197, 167,  80,  17,  54, 251,
     198, 103,  74, 245, 165,  18, 101, 126, 176, 223, 175,  78, 179,  97, 127,  47 >>

IsSpace(c) == c \in {32, 9, 10, 11, 12, 13}
IsDigit(c) == c \in 48..57

RECURSIVE SkipSpaces(_, _)
\* the index of the first character of s at or after k that is not white space
SkipSpaces(s, k) == IF k <= Len(s) /\ IsSpace(s[k]) THEN SkipSpaces(s, k + 1) ELSE k

RECURSIVE DigitRun(_, _)
\* the digits (as numbers) of the longest run of decimal digits of s starting at k
DigitRun(s, k) ==
  IF k <= Len(s) /\ IsDigit(s[k]) THEN <<s[k] - 48>> \o DigitRun(s, k + 1) ELSE <<>>

RECURSIVE StripZeros(_)
StripZeros(ds) == IF Len(ds) > 0 /\ ds[1] = 0 THEN StripZeros(Tail(ds)) ELSE ds

\* the decimal digits of ULLONG_MAX, 2^64 - 1
ULLONG_MAX_DIGITS == <<1, 8, 4, 4, 6, 7, 4, 4, 0, 7, 3, 7, 0, 9, 5, 5, 1, 6, 1, 5>>

RECURSIVE LexGt(_, _)
\* a > b for two digit sequences of one length
LexGt(a, b) ==
  IF Len(a) = 0 THEN FALSE
  ELSE IF a[1] # b[1] THEN a[1] > b[1]
  ELSE LexGt(Tail(a), Tail(b))

\* whether the digits ds are a number above ULLONG_MAX
Overflows64(ds) ==
  LET sig == StripZeros(ds)
  IN Len(sig) > 20 \/ (Len(sig) = 20 /\ LexGt(sig, ULLONG_MAX_DIGITS))

RECURSIVE AccLow8(_, _)
\* the low byte of the accumulator of the digit loop acc = acc * 10 + d
AccLow8(ds, acc) ==
  IF Len(ds) = 0 THEN acc ELSE AccLow8(Tail(ds), (acc * 10 + ds[1]) % 256)

\* strtoull(s, NULL, 10) & 0xFF: white space is skipped, a sign is taken, the
\* digits are read up to the first other character; no digit gives 0, a value
\* above ULLONG_MAX gives ULLONG_MAX, a '-' negates the value modulo 2^64.
StrtoullLow8(s) ==
  LET k0 == SkipSpaces(s, 1)
      signed == k0 <= Len(s) /\ s[k0] \in {43, 45}
      neg == signed /\ s[k0] = 45
      ds == DigitRun(s, IF signed THEN k0 + 1 ELSE k0)
      low == AccLow8(ds, 0)
  IN IF Overflows64(ds) THEN 255
     ELSE IF neg THEN (256 - low) % 256
     ELSE low

\* the number of characters of s that strtoull reads: those it takes and the
\* one that stops it
StrtoullReads(s) ==
  LET k0 == SkipSpaces(s, 1)
      signed == k0 <= Len(s) /\ s[k0] \in {43, 45}
      k1 == IF signed THEN k0 + 1 ELSE k0
  IN (k1 - 1) + Len(DigitRun(s, k1)) + 1

\* key ^= (shutter_count >> (i * 8)) & 0xFF for i = 0..3
ShutterKey(shutter) ==
  Xor(Xor(ByteOf(shutter, 0), ByteOf(shutter, 1)),
      Xor(ByteOf(shutter, 2), ByteOf(shutter, 3)))

\* cj = (cj + ci * ck) & 0xFF
NextCj(ci, cj, ck) == (cj + ci * ck) % 256

\* ck = (ck + 1) & 0xFF
NextCk(ck) == (ck + 1) % 256

\* data[i] += cj where the code has ^=
CombineAdd(b, cj) == (b + cj) % 256

\* data[i] ^= cj
Combine(b, cj) == Xor(b, cj)

\* One iteration of the loop of decrypt at position k (1-based) from the state
\* st = [data, cj, ck]: cj and ck are advanced, then data[k] is combined with cj.
DecryptStep(st, k, ci) ==
  LET cj2 == NextCj(ci, st.cj, st.ck)
  IN [data |-> [st.data EXCEPT ![k] = Combine(@, cj2)], cj |-> cj2, ck |-> NextCk(st.ck)]

RECURSIVE DecryptLoop(_, _, _, _)
\* Iterations lo..hi of the loop of decrypt, run in order from the state st.  A
\* range of several iterations is run as its first half, then its second half
\* from the state the first half left; no position past the data is run.
DecryptLoop(st, lo, hi, ci) ==
  IF lo > hi \/ lo > Len(st.data) THEN st
  ELSE IF lo = hi THEN DecryptStep(st, lo, ci)
  ELSE DecryptLoop(DecryptLoop(st, lo, (lo + hi) \div 2, ci), ((lo + hi) \div 2) + 1, hi, ci)

\* decrypt(data, Len(data), serial, shutter): the bytes of data afterwards.
\* low8 is (strtoull(serial_number) & 0xFF).
DecryptWith(data, low8, shutter) ==
  IF Len(data) = 0 THEN data
  ELSE DecryptLoop([data |-> data, cj |-> xlat1[ShutterKey(shutter) + 1], ck |-> CK_INIT],
                   1, Len(data), xlat0[low8 + 1]).data

\* decrypt with the serial number a string
Decrypt(data, serial, shutter) == DecryptWith(data, StrtoullLow8(serial), shutter)

(***************************************************************************)
(* The lens-ID table and its lookup.                                       *)
(***************************************************************************)
nikon_lens_id_table ==
  << [tag |-> <<227, 64, 118, 166, 56, 64, 223, 78>>,
      id  |-> "Tamron SP 150-600mm f/5-6.3 Di VC USD G2"],
     [tag |-> <<170, 72, 55, 92, 36, 36, 197, 78>>,
      id  |-> "AF-S Nikkor 24-70mm f/2.8E ED VR"],
     [tag |-> <<174, 60, 128, 160, 60, 60, 201, 78>>,
      id  |-> "AF-S Nikkor 200-500mm f/5.6E ED VR"] >>

\* the result of nikon_lens_id_lookup when no entry matches (NULL)
NoLensId == "NULL"

RECURSIVE LookupFrom7(_, _)
\* the scan with memcmp over sizeof(lens_id) - 1 = 7 bytes, the length main copies
LookupFrom7(key, k) ==
  IF k > Len(nikon_lens_id_table) THEN NoLensId
  ELSE IF SubSeq(key, 1, 7) = SubSeq(nikon_lens_id_table[k].tag, 1, 7)
    THEN nikon_lens_id_table[k].id
  ELSE LookupFrom7(key, k + 1)

RECURSIVE LookupFrom(_, _)
\* the scan of nikon_lens_id_lookup from entry k on
LookupFrom(key, k) ==
  IF k > Len(nikon_lens_id_table) THEN NoLensId
  ELSE IF key = nikon_lens_id_table[k].tag THEN nikon_lens_id_table[k].id
  ELSE LookupFrom(key, k + 1)

nikon_lens_id_lookup(key) == LookupFrom(key, 1)


(***************************************************************************)
(* Reading the buffer.  An address is a byte index into the buffer; a      *)
(* uint32_t pattern below 0 is an index of 2^31 or more.  g is the garbage *)
(* byte read at every address outside the buffer.                          *)
(***************************************************************************)
Size == Len(buffer)

\* whether the byte at address a + d is a byte of the buffer
PtrIn(a, d) == a >= 0 /\ a < Size - d

\* whether the n bytes from address a + d on are bytes of the buffer
RangeIn(a, d, n) == n = 0 \/ PtrIn(a, d + (n - 1))

\* the address a + d as one number, -1 when it is outside the buffer
Norm(a, d) == IF PtrIn(a, d) THEN a + d ELSE -1

Rd8(a, d, g) == IF PtrIn(a, d) THEN buffer[a + d + 1] ELSE g

\* a little-endian uint16_t
Rd16(a, d, g) == Rd8(a, d, g) + 256 * Rd8(a, d + 1, g)

\* a little-endian uint32_t, as its pattern
Rd32(a, d, g) ==
  LET b3 == Rd8(a, d + 3, g)
  IN Rd8(a, d, g) + 256 * Rd8(a, d + 1, g) + 65536 * Rd8(a, d + 2, g)
     + 16777216 * (IF b3 >= 128 THEN b3 - 256 ELSE b3)

\* the offsets of the fields of struct ifd_entry_t and of entry k in struct ifd_t
TagOff == 0
TypeOff == 2
CountOff == 4
ValueOff == 8
EntryDisp(k) == 2 + SizeofIfdEntry * k

\* The length of the C string at address p: the position of its first zero
\* byte, -1 when there is none in the buffer.
StrLen(p) ==
  IF ~PtrIn(p, 0) THEN -1
  ELSE IF \E k \in 0..(Size - p - 1) : buffer[p + k + 1] = 0
    THEN CHOOSE k \in 0..(Size - p - 1) :
           /\ buffer[p + k + 1] = 0
           /\ \A j \in 0..(k - 1) : buffer[p + j + 1] # 0
    ELSE -1

\* whether reading the C string at p runs out of the buffer
StrBad(p) == StrLen(p) < 0

\* The C string at p as printf("%s") or strtoull reads it.  One that runs out
\* of the buffer goes on with garbage: it ends there when the garbage is 0,
\* and is cut after one garbage byte otherwise.
CStr(p, g) ==
  LET tail == IF g = 0 THEN <<>> ELSE <<g>>
  IN IF ~PtrIn(p, 0) THEN tail
     ELSE IF StrLen(p) >= 0 THEN SubSeq(buffer, p + 1, p + StrLen(p))
     ELSE SubSeq(buffer, p + 1, Size) \o tail

(***************************************************************************)
(* What main prints.                                                       *)
(***************************************************************************)
Line(field, kind, s, n, d, t) ==
  [field |-> field, kind |-> kind, s |-> s, n |-> n, d |-> d, t |-> t]
OutStr(field, s)    == Line(field, "str", s, 0, 0, "")
OutNum(field, n)    == Line(field, "num", <<>>, n, 0, "")
OutRat(field, n, d) == Line(field, "rat", <<>>, n, d, "")
OutText(field, t)   == Line(field, "text", <<>>, 0, 0, t)
\* printf("%s", NULL), where it does not stop the process
OutNull(field)      == Line(field, "null", <<>>, 0, 0, "")

ErrInvalidNef == "Error: Invalid NEF."
ErrInvalidMakernote == "Error: Invalid Makernote."
ErrNotRational == "Error: Entry type is not RATIONAL."
ErrNotAscii == "Error: Entry type is not ASCII."

(***************************************************************************)
(* The helpers of main.                                                    *)
(***************************************************************************)
\* the test of the header with && where the code has ||: a file is refused only
\* when both fields are wrong
HeaderInvalidBoth(magic, order) == magic # TIFF_MAGIC /\ order # TIFF_LITTLE_ENDIAN

\* the test of the header: true when the file is refused
HeaderInvalid(magic, order) == magic # TIFF_MAGIC \/ order # TIFF_LITTLE_ENDIAN

\* BYTES_TO_DWORDS(v) as a byte address: data[v >> 2] of a uint32_t array
DwordAddr(v) == IF v < 0 THEN v ELSE v - (v % 4)

\* get_tiff_rational on the entry at base + disp.  The float it returns is held
\* as the fraction n/d: d = 0 is the infinity (n > 0) or the NaN (n = 0) that
\* the division gives.  msgs is what it prints on stderr.
get_tiff_rational(base, disp, g) ==
  LET type == Rd16(base, disp + TypeOff, g)
      value == Rd32(base, disp + ValueOff, g)
      a == DwordAddr(value)
  IN IF type = TIFF_TYPE_RATIONAL
       THEN [n |-> Rd32(a, 0, g), d |-> Rd32(a, 4, g), msgs |-> <<>>,
             bad |-> ~RangeIn(base, disp + TypeOff, 2)
                     \/ ~RangeIn(base, disp + ValueOff, 4) \/ ~RangeIn(a, 0, 8)]
       ELSE [n |-> 0, d |-> 1, msgs |-> <<ErrNotRational>>,
             bad |-> ~RangeIn(base, disp + TypeOff, 2)]

\* 1 / r for a float held as a fraction
Reciprocal(r) == [n |-> r.d, d |-> r.n]

\* get_makernote_string taking the value of a long entry as an offset from the
\* start of the file
get_makernote_stringAbsolute(base, disp, g) ==
  LET type == Rd16(base, disp + TypeOff, g)
      count == Rd32(base, disp + CountOff, g)
      value == Rd32(base, disp + ValueOff, g)
  IN IF type = TIFF_TYPE_ASCII
       THEN IF ULt(4, count)
              THEN [null |-> FALSE,
                    ptr |-> Norm(value, 0),
                    msgs |-> <<>>,
                    bad |-> ~RangeIn(base, disp + TypeOff, 10)]
              ELSE [null |-> FALSE, ptr |-> Norm(base, disp + ValueOff), msgs |-> <<>>,
                    bad |-> ~RangeIn(base, disp + TypeOff, 6)]
       ELSE [null |-> TRUE, ptr |-> -1, msgs |-> <<ErrNotAscii>>,
             bad |-> ~RangeIn(base, disp + TypeOff, 2)]

\* get_makernote_string on the entry at base + disp: null when it returns NULL,
\* else ptr, the address of the string (-1 outside the buffer).
get_makernote_string(base, disp, g) ==
  LET type == Rd16(base, disp + TypeOff, g)
      count == Rd32(base, disp + CountOff, g)
      value == Rd32(base, disp + ValueOff, g)
  IN IF type = TIFF_TYPE_ASCII
       THEN IF ULt(4, count)
              THEN [null |-> FALSE,
                    ptr |-> Norm(Add32(Add32(makernote_offset, tiff_offset), value), 0),
                    msgs |-> <<>>,
                    bad |-> ~RangeIn(base, disp + TypeOff, 10)]
              ELSE [null |-> FALSE, ptr |-> Norm(base, disp + ValueOff), msgs |-> <<>>,
                    bad |-> ~RangeIn(base, disp + TypeOff, 6)]
       ELSE [null |-> TRUE, ptr |-> -1, msgs |-> <<ErrNotAscii>>,
             bad |-> ~RangeIn(base, disp + TypeOff, 2)]

\* The metering-mode names of main's inner switch
MeteringName(v) ==
  CASE v = 0 -> "Unknown"
    [] v = 1 -> "Average"
    [] v = 2 -> "Center-Weighted"
    [] v = 3 -> "Spot"
    [] v = 4 -> "Multi-Spot"
    [] v = 5 -> "Multi-Segment"
    [] v = 6 -> "Partial"
    [] OTHER -> "Other"

\* (uint32_t)(100 * pow(2, raw / 12 - 5)) for raw = 0..255 (entry raw + 1),
\* the double product cut to an integer
IsoPow ==
  <<       3,       3,       3,       3,       3,       4,       4,       4,
           4,       5,       5,       5,       6,       6,       7,       7,
           7,       8,       8,       9,       9,      10,      11,      11,
          12,      13,      14,      14,      15,      16,      17,      18,
          19,      21,      22,      23,      25,      26,      28,      29,
          31,      33,      35,      37,      39,      42,      44,      47,
          50,      52,      56,      59,      62,      66,      70,      74,
          79,      84,      89,      94,     100,     105,     112,     118,
         125,     133,     141,     149,     158,     168,     178,     188,
         200,     211,     224,     237,     251,     266,     282,     299,
         317,     336,     356,     377,     400,     423,     448,     475,
         503,     533,     565,     599,     634,     672,     712,     755,
         800,     847,     897,     951,    1007,    1067,    1131,    1198,
        1269,    1345,    1425,    1510,    1600,    1695,    1795,    1902,
        2015,    2135,    2262,    2397,    2539,    2690,    2850,    3020,
        3200,    3390,    3591,    3805,    4031,    4271,    4525,    4794,
        5079,    5381,    5701,    6040,    6400,    6780,    7183,    7610,
        8063,    8542,    9050,    9589,   10159,   10763,   11403,   12081,
       12800,   13561,   14367,   15221,   16126,   17085,   18101,   19178,
       20318,   21526,   22807,   24163,   25600,   27122,   28735,   30443,
       32253,   34171,   36203,   38356,   40637,   43053,   45614,   48326,
       51200,   54244,   57470,   60887,   64507,   68343,   72407,   76713,
       81274,   86107,   91228,   96652,  102400,  108489,  114940,  121774,
      129015,  136687,  144815,  153426,  162549,  172215,  182456,  193305,
      204800,  216978,  229880,  243549,  258031,  273375,  289630,  306853,
      325099,  344431,  364912,  386610,  409600,  433956,  459760,  487099,
      516063,  546750,  579261,  613706,  650199,  688862,  729824,  773221,
      819200,  867912,  919520,  974198, 1032127, 1093500, 1158523, 1227413,
     1300398, 1377724, 1459648, 1546443, 1638400, 1735824, 1839041, 1948396,
     2064254, 2187001, 2317047, 2454826, 2600797, 2755449, 2919296, 3092887,
     3276800, 3471648, 3678083, 3896793, 4128509, 4374003, 4634095, 4909652,
     5201595, 5510898, 5838593, 6185774, 6553600, 6943297, 7356167, 7793587 >>
\* the ISO without the round-up to a multiple of 10
IsoOfTruncated(raw) == IsoPow[raw + 1]

\* the ISO main prints for the raw byte
IsoOf(raw) ==
  LET iso == IsoPow[raw + 1]
      remainder == iso % 10
  IN IF remainder # 0 THEN iso + (10 - remainder) ELSE iso

RECURSIVE AtoiAcc(_, _)
AtoiAcc(ds, acc) == IF Len(ds) = 0 THEN acc ELSE AtoiAcc(Tail(ds), acc * 10 + ds[1])

\* atoi(s) for a string of at most four characters
Atoi(s) ==
  LET k0 == SkipSpaces(s, 1)
      signed == k0 <= Len(s) /\ s[k0] \in {43, 45}
      v == AtoiAcc(DigitRun(s, IF signed THEN k0 + 1 ELSE k0), 0)
  IN IF signed /\ s[k0] = 45 THEN 0 - v ELSE v

\* strncpy_s(version, 5, &buffer[a], 4): the characters copied, up to the first
\* zero byte
Strncpy4(a, g) ==
  LET b(k) == Rd8(a, k, g)
  IN IF b(0) = 0 THEN <<>>
     ELSE IF b(1) = 0 THEN <<b(0)>>
     ELSE IF b(2) = 0 THEN <<b(0), b(1)>>
     ELSE IF b(3) = 0 THEN <<b(0), b(1), b(2)>>
     ELSE <<b(0), b(1), b(2), b(3)>>

\* the bytes strncpy_s reads there: the characters copied and the zero byte
\* that ends them, four at most
Strncpy4Reads(a, g) == IF Len(Strncpy4(a, g)) < 4 THEN Len(Strncpy4(a, g)) + 1 ELSE 4

(***************************************************************************)
(* The steps of main.  Each is what one step does from the current state   *)
(* when every byte outside the buffer reads as g: the new values of what   *)
(* it assigns, bad (whether it accesses a byte outside the buffer) and     *)
(* null (whether it hands a NULL pointer to printf or strtoull).           *)
(***************************************************************************)
GarbageBytes == {0, 65}

\* The header test: magic is read first, and the byte order only when the magic
\* is right.
HeaderStep(g) ==
  LET magic == Rd16(0, 2, g)
      order == Rd16(0, 0, g)
  IN [invalid |-> HeaderInvalid(magic, order),
      bad |-> ~RangeIn(0, 2, 2) \/ (magic = TIFF_MAGIC /\ ~RangeIn(0, 0, 2)),
      null |-> FALSE]

\* One pass of the loop over IFD0: the test i < ifd0->entries, then the switch
\* on entry i.
IFD0Step(g) ==
  LET base == Rd32(0, 4, g)
      n == Rd16(base, 0, g)
      d == EntryDisp(i)
      tag == Rd16(base, d + TagOff, g)
      count == Rd32(base, d + CountOff, g)
      value == Rd32(base, d + ValueOff, g)
      testBad == ~RangeIn(0, 4, 4) \/ ~RangeIn(base, 0, 2)
      valBad == ~RangeIn(base, d + ValueOff, 4)
      keep == [done |-> FALSE, bad |-> testBad \/ ~RangeIn(base, d + TagOff, 2),
               null |-> FALSE, exif |-> exif_offset, sub |-> subifd_offset, out |-> out]
  IN IF ~(i < n) THEN [keep EXCEPT !.done = TRUE, !.bad = testBad]
     ELSE CASE tag = EXIF_TAG_EXIF_OFFSET ->
                 [keep EXCEPT !.exif = value, !.bad = @ \/ valBad]
            [] tag = EXIF_TAG_MODEL ->
                 [keep EXCEPT !.out = Append(out, OutStr("Camera Model", CStr(Norm(value, 0), g))),
                              !.bad = @ \/ valBad \/ StrBad(Norm(value, 0))]
            [] tag = EXIF_TAG_SUBIFD_OFFSET ->
                 IF ULt(2, count)
                   THEN [keep EXCEPT !.sub = Rd32(value, 0, g),
                                     !.bad = @ \/ valBad \/ ~RangeIn(base, d + CountOff, 4)
                                               \/ ~RangeIn(value, 0, 4)]
                   ELSE [keep EXCEPT !.sub = value,
                                     !.bad = @ \/ valBad \/ ~RangeIn(base, d + CountOff, 4)]
            [] tag = EXIF_TAG_DATE_TIME_ORIGINAL ->
                 [keep EXCEPT !.out = Append(out, OutStr("Time Stamp", CStr(Norm(value, 0), g))),
                              !.bad = @ \/ valBad \/ StrBad(Norm(value, 0))]
            [] OTHER -> keep

\* After the loop over IFD0: the entry count of the sub-IFD is read (its loop
\* has an empty body), then the next-IFD offset behind the entries of IFD0.
SubIfdStep(g) ==
  LET base == Rd32(0, 4, g)
      n == Rd16(base, 0, g)
      off == SizeofTiffHeader + 2 + n * SizeofIfdEntry
  IN [offset |-> off,
      next_ifd_offset |-> Rd32(off, 0, g),
      bad |-> ~RangeIn(subifd_offset, 0, 2) \/ ~RangeIn(0, 4, 4) \/ ~RangeIn(base, 0, 2)
              \/ ~RangeIn(off, 0, 4),
      null |-> FALSE]

\* One pass of the loop over the Exif IFD.
ExifStep(g) ==
  LET base == exif_offset
      n == Rd16(base, 0, g)
      d == EntryDisp(i)
      tag == Rd16(base, d + TagOff, g)
      value == Rd32(base, d + ValueOff, g)
      r == get_tiff_rational(base, d, g)
      testBad == ~RangeIn(base, 0, 2)
      valBad == ~RangeIn(base, d + ValueOff, 4)
      keep == [done |-> FALSE, bad |-> testBad \/ ~RangeIn(base, d + TagOff, 2),
               null |-> FALSE, makernote |-> makernote_offset, out |-> out, err |-> err]
  IN IF ~(i < n) THEN [keep EXCEPT !.done = TRUE, !.bad = testBad]
     ELSE CASE tag = EXIF_TAG_MAKERNOTE ->
                 [keep EXCEPT !.makernote = value, !.bad = @ \/ valBad]
            [] tag = EXIF_TAG_EXPOSURE_TIME ->
                 [keep EXCEPT !.out = Append(out, OutRat("Shutter Speed", Reciprocal(r).n,
                                                         Reciprocal(r).d)),
                              !.err = err \o r.msgs, !.bad = @ \/ r.bad]
            [] tag = EXIF_TAG_FNUMBER ->
                 [keep EXCEPT !.out = Append(out, OutRat("Aperature", r.n, r.d)),
                              !.err = err \o r.msgs, !.bad = @ \/ r.bad]
            [] tag = EXIF_TAG_METERING_MODE ->
                 [keep EXCEPT !.out = Append(out, OutText("Metering Mode", MeteringName(value))),
                              !.bad = @ \/ valBad]
            [] tag = EXIF_TAG_FOCAL_LENGTH ->
                 [keep EXCEPT !.out = Append(out, OutRat("Focal Length", r.n, r.d)),
                              !.err = err \o r.msgs, !.bad = @ \/ r.bad]
            [] OTHER -> keep

\* The last byte strcmp(makernote_header->magic_value, MAKERNOTE_MAGIC) reads:
\* the first that differs from "Nikon" and its terminator, else the terminator.
StrcmpLast(m, g) ==
  IF \E k \in 0..5 : Rd8(m, k, g) # MAKERNOTE_MAGIC[k + 1]
    THEN CHOOSE k \in 0..5 :
           /\ Rd8(m, k, g) # MAKERNOTE_MAGIC[k + 1]
           /\ \A j \in 0..(k - 1) : Rd8(m, j, g) = MAKERNOTE_MAGIC[j + 1]
    ELSE 5

\* a comparison of the first four characters only, as strncmp(.., .., 4) == 0
MagicMatchesPrefix(m, g) == \A k \in 0..3 : Rd8(m, k, g) = MAKERNOTE_MAGIC[k + 1]

\* strcmp(makernote_header->magic_value, MAKERNOTE_MAGIC) == 0
MagicMatches(m, g) == \A k \in 0..5 : Rd8(m, k, g) = MAKERNOTE_MAGIC[k + 1]

\* The test of the maker-note signature.
MagicStep(g) ==
  [valid |-> MagicMatches(makernote_offset, g),
   bad |-> ~PtrIn(makernote_offset, StrcmpLast(makernote_offset, g)),
   null |-> FALSE]

\* One pass of the loop over the maker-note IFD.
MakernoteStep(g) ==
  LET base == Add32(makernote_offset, SizeofMakernoteHeader)
      n == Rd16(base, 0, g)
      d == EntryDisp(i)
      tag == Rd16(base, d + TagOff, g)
      count == Rd32(base, d + CountOff, g)
      value == Rd32(base, d + ValueOff, g)
      s == get_makernote_string(base, d, g)
      isoAt == Add32(Add32(makernote_offset, tiff_offset), value)
      \* the characters strncpy_s takes from the value field for the version
      verLen == IF StrLen(Norm(base, d + ValueOff)) >= 0
                   /\ (count < 0 \/ StrLen(Norm(base, d + ValueOff)) < count)
                  THEN StrLen(Norm(base, d + ValueOff)) + 1
                  ELSE count
      testBad == ~RangeIn(base, 0, 2)
      valBad == ~RangeIn(base, d + ValueOff, 4)
      keep == [done |-> FALSE, bad |-> testBad \/ ~RangeIn(base, d + TagOff, 2),
               null |-> FALSE, offset |-> offset, lens_data |-> lens_data,
               lens_type |-> lens_type, shutter_count |-> shutter_count,
               serial_number |-> serial_number, out |-> out, err |-> err]
      printed(field) ==
        [keep EXCEPT !.out = Append(out, IF s.null THEN OutNull(field)
                                         ELSE OutStr(field, CStr(s.ptr, g))),
                     !.err = err \o s.msgs,
                     !.null = s.null,
                     !.bad = @ \/ s.bad \/ (~s.null /\ StrBad(s.ptr))]
  IN IF ~(i < n) THEN [keep EXCEPT !.done = TRUE, !.bad = testBad]
     ELSE CASE tag = NIKON_TAG_MAKERNOTE_VERSION ->
                 [keep EXCEPT !.bad = @ \/ ~RangeIn(base, d + CountOff, 4)
                                        \/ count = -1
                                        \/ verLen < 0
                                        \/ ~RangeIn(base, d + ValueOff, verLen)]
            [] tag = NIKON_TAG_SHUTTER_COUNT ->
                 [keep EXCEPT !.shutter_count = value,
                              !.out = Append(out, OutNum("Shutter Count", value)),
                              !.bad = @ \/ valBad]
            [] tag = NIKON_TAG_FOCUS_MODE -> printed("Focus Mode")
            [] tag = NIKON_TAG_QUALITY -> printed("Quality")
            [] tag = NIKON_TAG_WHITE_BALANCE -> printed("White Balance")
            [] tag = NIKON_TAG_SERIAL_NUMBER ->
                 [printed("Camera Serial Number") EXCEPT
                    !.serial_number = IF s.null THEN <<>> ELSE <<s.ptr>>]
            [] tag = NIKON_TAG_ISO_INFO ->
                 [keep EXCEPT !.offset = isoAt,
                              !.out = Append(out, OutNum("Image ISO", IsoOf(Rd8(isoAt, 0, g)))),
                              !.bad = @ \/ valBad \/ ~RangeIn(isoAt, 0, 1)]
            [] tag = NIKON_TAG_LENS_TYPE ->
                 [keep EXCEPT !.lens_type = value % 256, !.bad = @ \/ valBad]
            [] tag = NIKON_TAG_LENS_DATA -> [keep EXCEPT !.lens_data = <<i>>]
            [] OTHER -> keep

\* buf with the bytes at addresses a .. a + Len(bytes) - 1 replaced by bytes
Overwrite(buf, a, bytes) ==
  IF Len(bytes) = 0 THEN buf
  ELSE SubSeq(buf, 1, a) \o bytes \o SubSeq(buf, a + Len(bytes) + 1, Len(buf))

\* memcpy_s(lens_id, 8, &buf[at], 7); lens_id[7] = type
LensId(buf, at, type, g) ==
  LET b(k) == IF PtrIn(at, k) THEN buf[at + k + 1] ELSE g
  IN <<b(0), b(1), b(2), b(3), b(4), b(5), b(6), type>>

\* what main prints for the result of the lookup
LensLine(lens_model) ==
  OutText("Camera Lens", IF lens_model = NoLensId THEN "Unknown Model." ELSE lens_model)

\* The lens-data pass after the loop over the maker-note, for lens_data # NULL:
\* the version is read, decrypt is called when it is 201 or more, the composite
\* lens ID is taken from the buffer and looked up.
LensStep(g) ==
  LET base == Add32(makernote_offset, SizeofMakernoteHeader)
      d == EntryDisp(lens_data[1])
      value == Rd32(base, d + ValueOff, g)
      count == Rd32(base, d + CountOff, g)
      off == Add32(Add32(makernote_offset, tiff_offset), value)
      version == Strncpy4(off, g)
      lens_data_version == Atoi(version)
      called == UGe(lens_data_version, LENS_DATA_0201)
      size == Sub32(count, 4)
      \* decrypt does nothing for size = 0 (its data pointer is never NULL here)
      runs == called /\ size # 0
      start == Norm(Add32(off, 4), 0)
      avail == IF start < 0 THEN 0 ELSE Size - start
      \* the bytes of the buffer the loop of decrypt writes
      m == IF size < 0 \/ size > avail THEN avail ELSE size
      p == IF serial_number = <<>> THEN -1 ELSE serial_number[1]
      serial == CStr(p, g)
      low8 == IF serial_number = <<>> THEN g ELSE StrtoullLow8(serial)
      serialBad == serial_number # <<>>
                   /\ (p < 0 \/ (StrBad(p) /\ StrtoullReads(SubSeq(buffer, p + 1, Size)) > Size - p))
      newbuf == IF runs /\ m > 0
                  THEN Overwrite(buffer, start,
                                 DecryptWith(SubSeq(buffer, start + 1, start + m), low8,
                                             shutter_count))
                  ELSE buffer
      idAt == Add32(off, LENS_ID_OFFSET)
  IN [offset |-> off,
      buffer |-> newbuf,
      out |-> Append(out, LensLine(nikon_lens_id_lookup(LensId(newbuf, idAt, lens_type, g)))),
      calls |-> IF called
                  THEN Append(decrypt_calls,
                              [data |-> Add32(off, 4), size |-> size,
                               serial_number |-> serial_number,
                               shutter_count |-> shutter_count])
                  ELSE decrypt_calls,
      bad |-> \/ ~RangeIn(base, d + ValueOff, 4)
              \/ ~RangeIn(off, 0, Strncpy4Reads(off, g))
              \/ (called /\ ~RangeIn(base, d + CountOff, 4))
              \/ (runs /\ (serialBad \/ size < 0 \/ size > avail))
              \/ ~RangeIn(idAt, 0, 7),
      null |-> runs /\ serial_number = <<>>]

(***************************************************************************)
(* The actions: one per step of main.  A step that accesses a byte outside *)
(* the buffer either stops the process (Crash) or goes on with a garbage   *)
(* byte g; MaxOOB caps how often a run goes on.                            *)
(***************************************************************************)
Undefined(s, g) ==
  /\ s.bad => oob < MaxOOB
  /\ (~s.bad /\ ~s.null) => g = 0
  /\ oob' = IF s.bad THEN oob + 1 ELSE oob

ValidateHeader ==
  /\ pc = "Start"
  /\ \E g \in GarbageBytes :
       \E s \in {HeaderStep(g)} :
          /\ Undefined(s, g)
          /\ IF s.invalid
               THEN /\ err' = Append(err, ErrInvalidNef)
                    /\ pc' = "Done"
               ELSE /\ err' = err
                    /\ pc' = "HeaderValidated"
  /\ i' = 0
  /\ UNCHANGED <<buffer, offset, subifd_offset, exif_offset, makernote_offset, tiff_offset,
                 lens_data, lens_type, shutter_count, serial_number, out, decrypt_calls,
                 cipherVars, lookupVars>>

IFD0Entry ==
  /\ pc = "HeaderValidated"
  /\ \E g \in GarbageBytes :
       \E s \in {IFD0Step(g)} :
          /\ ~s.done
          /\ Undefined(s, g)
          /\ exif_offset' = s.exif
          /\ subifd_offset' = s.sub
          /\ out' = s.out
  /\ i' = i + 1
  /\ UNCHANGED <<buffer, pc, offset, makernote_offset, tiff_offset, lens_data, lens_type,
                 shutter_count, serial_number, err, decrypt_calls, cipherVars, lookupVars>>

IFD0Exit ==
  /\ pc = "HeaderValidated"
  /\ \E g \in GarbageBytes :
       \E s \in {IFD0Step(g)} :
          /\ s.done
          /\ Undefined(s, g)
  /\ pc' = "IFD0Walked"
  /\ UNCHANGED <<buffer, i, offset, subifd_offset, exif_offset, makernote_offset,
                 tiff_offset, lens_data, lens_type, shutter_count, serial_number, out, err,
                 decrypt_calls, cipherVars, lookupVars>>

\* LocateExif with the additional IFD processed where the code has its TODO: the
\* walk over the IFD entries is started again when the next-IFD offset is not 0
LocateExifRewalk ==
  /\ pc = "IFD0Walked"
  /\ \E g \in GarbageBytes :
       \E s \in {SubIfdStep(g)} :
          /\ Undefined(s, g)
          /\ offset' = s.offset
          /\ pc' = IF s.next_ifd_offset = 0 THEN "ExifLocated" ELSE "HeaderValidated"
  /\ i' = 0
  /\ UNCHANGED <<buffer, subifd_offset, exif_offset, makernote_offset, tiff_offset,
                 lens_data, lens_type, shutter_count, serial_number, out, err,
                 decrypt_calls, cipherVars, lookupVars>>

LocateExif ==
  /\ pc = "IFD0Walked"
  /\ \E g \in GarbageBytes :
       \E s \in {SubIfdStep(g)} :
          /\ Undefined(s, g)
          /\ offset' = s.offset
  /\ pc' = "ExifLocated"
  /\ i' = 0
  /\ UNCHANGED <<buffer, subifd_offset, exif_offset, makernote_offset, tiff_offset,
                 lens_data, lens_type, shutter_count, serial_number, out, err,
                 decrypt_calls, cipherVars, lookupVars>>

ExifEntry ==
  /\ pc = "ExifLocated"
  /\ \E g \in GarbageBytes :
       \E s \in {ExifStep(g)} :
          /\ ~s.done
          /\ Undefined(s, g)
          /\ makernote_offset' = s.makernote
          /\ out' = s.out
          /\ err' = s.err
  /\ i' = i + 1
  /\ UNCHANGED <<buffer, pc, offset, subifd_offset, exif_offset, tiff_offset, lens_data,
                 lens_type, shutter_count, serial_number, decrypt_calls, cipherVars, lookupVars>>

ExifExit ==
  /\ pc = "ExifLocated"
  /\ \E g \in GarbageBytes :
       \E s \in {ExifStep(g)} :
          /\ s.done
          /\ Undefined(s, g)
  /\ pc' = "ExifWalked"
  /\ UNCHANGED <<buffer, i, offset, subifd_offset, exif_offset, makernote_offset,
                 tiff_offset, lens_data, lens_type, shutter_count, serial_number, out, err,
                 decrypt_calls, cipherVars, lookupVars>>

\* makernote_header = &buffer[makernote_offset]: no byte is read yet
LocateMakernote ==
  /\ pc = "ExifWalked"
  /\ pc' = "MakernoteLocated"
  /\ UNCHANGED <<buffer, i, offset, subifd_offset, exif_offset, makernote_offset,
                 tiff_offset, lens_data, lens_type, shutter_count, serial_number, out, err,
                 oob, decrypt_calls, cipherVars, lookupVars>>

ValidateMakernote ==
  /\ pc = "MakernoteLocated"
  /\ \E g \in GarbageBytes :
       \E s \in {MagicStep(g)} :
          /\ Undefined(s, g)
          /\ IF s.valid
               THEN /\ offset' = Add32(makernote_offset, SizeofMakernoteHeader)
                    /\ tiff_offset' = SizeofMakernoteHeader - SizeofTiffHeader
                    /\ pc' = "MakernoteValidated"
                    /\ err' = err
               ELSE /\ err' = Append(err, ErrInvalidMakernote)
                    /\ pc' = "Done"
                    /\ UNCHANGED <<offset, tiff_offset>>
  /\ i' = 0
  /\ lens_data' = <<>>
  /\ lens_type' = 0
  /\ shutter_count' = 0
  /\ serial_number' = <<>>
  /\ UNCHANGED <<buffer, subifd_offset, exif_offset, makernote_offset, out, decrypt_calls,
                 cipherVars, lookupVars>>

MakernoteEntry ==
  /\ pc = "MakernoteValidated"
  /\ \E g \in GarbageBytes :
       \E s \in {MakernoteStep(g)} :
          /\ ~s.done
          /\ Undefined(s, g)
          /\ offset' = s.offset
          /\ lens_data' = s.lens_data
          /\ lens_type' = s.lens_type
          /\ shutter_count' = s.shutter_count
          /\ serial_number' = s.serial_number
          /\ out' = s.out
          /\ err' = s.err
  /\ i' = i + 1
  /\ UNCHANGED <<buffer, pc, subifd_offset, exif_offset, makernote_offset, tiff_offset,
                 decrypt_calls, cipherVars, lookupVars>>

MakernoteExit ==
  /\ pc = "MakernoteValidated"
  /\ \E g \in GarbageBytes :
       \E s \in {MakernoteStep(g)} :
          /\ s.done
          /\ Undefined(s, g)
  /\ pc' = "MakernoteWalked"
  /\ UNCHANGED <<buffer, i, offset, subifd_offset, exif_offset, makernote_offset,
                 tiff_offset, lens_data, lens_type, shutter_count, serial_number, out, err,
                 decrypt_calls, cipherVars, lookupVars>>

\* the lens pass made as soon as the lens-data entry is met, inside the loop
ResolveLensAtEntry ==
  /\ pc = "MakernoteValidated"
  /\ lens_data # <<>>
  /\ \E g \in GarbageBytes :
       \E s \in {LensStep(g)} :
          /\ Undefined(s, g)
          /\ offset' = s.offset
          /\ buffer' = s.buffer
          /\ out' = s.out
          /\ decrypt_calls' = s.calls
  /\ pc' = "LensResolved"
  /\ UNCHANGED <<i, subifd_offset, exif_offset, makernote_offset, tiff_offset, lens_data,
                 lens_type, shutter_count, serial_number, err, cipherVars, lookupVars>>

ResolveLens ==
  /\ pc = "MakernoteWalked"
  /\ lens_data # <<>>
  /\ \E g \in GarbageBytes :
       \E s \in {LensStep(g)} :
          /\ Undefined(s, g)
          /\ offset' = s.offset
          /\ buffer' = s.buffer
          /\ out' = s.out
          /\ decrypt_calls' = s.calls
  /\ pc' = "LensResolved"
  /\ UNCHANGED <<i, subifd_offset, exif_offset, makernote_offset, tiff_offset, lens_data,
                 lens_type, shutter_count, serial_number, err, cipherVars, lookupVars>>

\* if (NULL != lens_data) not taken
SkipLens ==
  /\ pc = "MakernoteWalked"
  /\ lens_data = <<>>
  /\ pc' = "LensResolved"
  /\ UNCHANGED <<buffer, i, offset, subifd_offset, exif_offset, makernote_offset,
                 tiff_offset, lens_data, lens_type, shutter_count, serial_number, out, err,
                 oob, decrypt_calls, cipherVars, lookupVars>>

\* free(buffer) and the end of main
Finish ==
  /\ pc = "LensResolved"
  /\ pc' = "Done"
  /\ UNCHANGED <<buffer, i, offset, subifd_offset, exif_offset, makernote_offset,
                 tiff_offset, lens_data, lens_type, shutter_count, serial_number, out, err,
                 oob, decrypt_calls, cipherVars, lookupVars>>

\* what the step at pc would do
Pending(g) ==
  CASE pc = "Start" -> HeaderStep(g)
    [] pc = "HeaderValidated" -> IFD0Step(g)
    [] pc = "IFD0Walked" -> SubIfdStep(g)
    [] pc = "ExifLocated" -> ExifStep(g)
    [] pc = "MakernoteLocated" -> MagicStep(g)
    [] pc = "MakernoteValidated" -> MakernoteStep(g)
    [] pc = "MakernoteWalked" /\ lens_data # <<>> -> LensStep(g)
    [] OTHER -> [bad |-> FALSE, null |-> FALSE]

\* The process is stopped by the access outside the buffer, or the NULL pointer,
\* of the step at pc.
Crash ==
  /\ \E g \in GarbageBytes :
       \E s \in {Pending(g)} :
          /\ s.bad \/ s.null
         /\ oob' = IF s.bad THEN oob + 1 ELSE oob
  /\ pc' = "Crashed"
  /\ UNCHANGED <<buffer, i, offset, subifd_offset, exif_offset, makernote_offset,
                 tiff_offset, lens_data, lens_type, shutter_count, serial_number, out, err,
                 decrypt_calls, cipherVars, lookupVars>>

(***************************************************************************)
(* The cipher on its own: decrypt applied twice to a block.                *)
(***************************************************************************)
\* Length of the one long block, past the point (160 bytes) where ck wraps to 0.
LongDataLen == 170
DataBytes == {0, 90, 255}
LongBlock == SubSeq([k \in 1..LongDataLen |-> (k * 7) % 256], 1, LongDataLen)
DataSamples ==
  UNION {[1..n -> DataBytes] : n \in 0..MaxDataLen} \cup {LongBlock}
\* "7654321", "42", "256", "", "AB1", " 12", "-3", "+9", "12AB", ULLONG_MAX,
\* ULLONG_MAX + 1, and 300 written with twenty leading zeros
SerialSamples ==
  { <<55, 54, 53, 52, 51, 50, 49>>,
    <<52, 50>>,
    <<50, 53, 54>>,
    <<>>,
    <<65, 66, 49>>,
    <<32, 49, 50>>,
    <<45, 51>>,
    <<43, 57>>,
    <<49, 50, 65, 66>>,
    <<49, 56, 52, 52, 54, 55, 52, 52, 48, 55, 51, 55, 48, 57, 53, 53, 49, 54, 49, 53>>,
    <<49, 56, 52, 52, 54, 55, 52, 52, 48, 55, 51, 55, 48, 57, 53, 53, 49, 54, 49, 54>>,
    <<48, 48, 48, 48, 48, 48, 48, 48, 48, 48, 48, 48, 48, 48, 48, 48, 48, 48, 48, 48, 51, 48, 48>> }
ShutterSamples == {0, 1, 258, 16909060, 2147483647, -1}

ParseIdle ==
  /\ buffer = <<>> /\ pc = "Done" /\ i = 0 /\ offset = 0
  /\ subifd_offset = 0 /\ exif_offset = 0 /\ makernote_offset = 0 /\ tiff_offset = 0
  /\ lens_data = <<>> /\ lens_type = 0 /\ shutter_count = 0 /\ serial_number = <<>>
  /\ out = <<>> /\ err = <<>> /\ oob = 0 /\ decrypt_calls = <<>>

CipherIdle ==
  /\ c_data = <<>> /\ c_serial = <<>> /\ c_shutter = 0 /\ c_out = <<>> /\ c_pass = 0

LookupIdle ==
  /\ l_key = <<>> /\ l_model = NoLensId /\ l_done = FALSE

CipherInit ==
  /\ ParseIdle
  /\ LookupIdle
  /\ c_data \in DataSamples
  /\ c_serial \in SerialSamples
  /\ c_shutter \in ShutterSamples
  /\ c_out = c_data
  /\ c_pass = 0

\* one more call decrypt(c_out, size, c_serial, c_shutter)
ApplyDecrypt ==
  /\ c_pass < 2
  /\ c_out' = Decrypt(c_out, c_serial, c_shutter)
  /\ c_pass' = c_pass + 1
  /\ UNCHANGED <<c_data, c_serial, c_shutter, parseVars, lookupVars>>

CipherNext == ApplyDecrypt
CipherSpec == CipherInit /\ [][CipherNext]_vars

(***************************************************************************)
(* The lens-ID lookup on its own: nikon_lens_id_lookup applied to a key.   *)
(***************************************************************************)
KeyDeltas == {1, 128, 255}
\* the tags of the table, each tag with one of its bytes changed, and the
\* all-zero key
KeySamples ==
  {nikon_lens_id_table[k].tag : k \in 1..Len(nikon_lens_id_table)}
  \cup {[nikon_lens_id_table[k].tag EXCEPT ![p] = (@ + d) % 256] :
          k \in 1..Len(nikon_lens_id_table), p \in 1..8, d \in KeyDeltas}
  \cup {<<0, 0, 0, 0, 0, 0, 0, 0>>}

LookupInit ==
  /\ ParseIdle
  /\ CipherIdle
  /\ l_key \in KeySamples
  /\ l_model = NoLensId
  /\ l_done = FALSE

\* lens_model = nikon_lens_id_lookup(l_key)
ApplyLookup ==
  /\ ~l_done
  /\ l_model' = nikon_lens_id_lookup(l_key)
  /\ l_done' = TRUE
  /\ UNCHANGED <<l_key, parseVars, cipherVars>>

LookupNext == ApplyLookup
LookupSpec == LookupInit /\ [][LookupNext]_vars

(***************************************************************************)
(* The files read.  A file is laid out as a camera writes it: the header,  *)
(* IFD0 at 8, the Exif IFD, the strings and rationals they point to, and   *)
(* the maker-note, whose offsets count from its own TIFF header.           *)
(***************************************************************************)
LE16(v) == <<v % 256, (v \div 256) % 256>>
LE32(v) == <<ByteOf(v, 0), ByteOf(v, 1), ByteOf(v, 2), ByteOf(v, 3)>>
Pad4(s) == SubSeq(s \o <<0, 0, 0, 0>>, 1, 4)
IfdEntry(tag, type, count, val4) == LE16(tag) \o LE16(type) \o LE32(count) \o val4

RECURSIVE Flatten(_)
Flatten(ss) == IF Len(ss) = 0 THEN <<>> ELSE ss[1] \o Flatten(Tail(ss))

Ifd(entries, next) == LE16(Len(entries)) \o Flatten(entries) \o LE32(next)
IfdSize(n) == 2 + SizeofIfdEntry * n + 4

\* "7654321", "FINE", "AF-S", "0210" and lens-data versions as bytes
SerialLong == <<55, 54, 53, 52, 51, 50, 49>>
SerialShort == <<52, 50>>
SerialAlpha == <<65, 66, 49>>
QualityText == <<70, 73, 78, 69>>
FocusText == <<65, 70, 45>>
Version0100 == <<48, 49, 48, 48>>
Version0204 == <<48, 50, 48, 52>>
VersionNeg == <<45, 48, 48, 49>>
\* the shutter count the files carry, as the bytes of its entry
ShutterBytes == <<2, 1, 0, 0>>
ShutterOf(b) == b[1] + 256 * b[2] + 65536 * b[3] + 16777216 * b[4]

\* the lens data behind the version, in the clear: eight bytes, then the seven
\* bytes of the lens ID of the second table entry
LensPlain == <<1, 2, 3, 4, 5, 6, 7, 8>> \o SubSeq(nikon_lens_id_table[2].tag, 1, 7)

\* The maker-note block for the tag list tags (names of entries).
MnBlock(sig, tags, version, lenscount, serial) ==
  LET n == Len(tags)
      r == SizeofTiffHeader + 2 + SizeofIfdEntry * n + 4
      payload == IF version = Version0100 THEN LensPlain
                 ELSE Decrypt(LensPlain, serial, ShutterOf(ShutterBytes))
      entry(t) ==
        CASE t = "serial" ->
               IF Len(serial) > 3
                 THEN IfdEntry(NIKON_TAG_SERIAL_NUMBER, TIFF_TYPE_ASCII, Len(serial) + 1, LE32(r))
                 ELSE IfdEntry(NIKON_TAG_SERIAL_NUMBER, TIFF_TYPE_ASCII, Len(serial) + 1,
                               Pad4(serial))
          [] t = "shutter" -> IfdEntry(NIKON_TAG_SHUTTER_COUNT, 4, 1, ShutterBytes)
          [] t = "lenstype" -> IfdEntry(NIKON_TAG_LENS_TYPE, 1, 1, LE32(nikon_lens_id_table[2].tag[8]))
          [] t = "lensdata" -> IfdEntry(NIKON_TAG_LENS_DATA, 7, lenscount, LE32(r + 20))
          [] t = "version" -> IfdEntry(NIKON_TAG_MAKERNOTE_VERSION, 7, 4, <<48, 50, 49, 48>>)
          [] t = "quality" -> IfdEntry(NIKON_TAG_QUALITY, TIFF_TYPE_ASCII, 5, LE32(r + 8))
          [] t = "focus" -> IfdEntry(NIKON_TAG_FOCUS_MODE, TIFF_TYPE_ASCII, 4, Pad4(FocusText))
          [] t = "balance" -> IfdEntry(NIKON_TAG_WHITE_BALANCE, 3, 1, LE32(0))
          [] t = "iso" -> IfdEntry(NIKON_TAG_ISO_INFO, 7, 1, LE32(r + 16))
          [] t = "iso0" -> IfdEntry(NIKON_TAG_ISO_INFO, 7, 1, LE32(r + 17))
          [] OTHER -> IfdEntry(2, 3, 2, LE32(0))
  IN sig \o <<2, 16, 0, 0>> \o LE16(TIFF_LITTLE_ENDIAN) \o LE16(TIFF_MAGIC) \o LE32(8)
     \o Ifd([k \in 1..n |-> entry(tags[k])], 0)
     \o SubSeq(SerialLong \o <<0>>, 1, 8)
     \o QualityText \o <<0, 0, 0, 0>>
     \o <<60, 0, 0, 0>>
     \o version \o payload

\* The file with IFD0 entries ifd0 and Exif entries exif (names of entries).
NefFile(order, magic, ifd0, next, exif, den, mn) ==
  LET e == SizeofTiffHeader + IfdSize(Len(ifd0))
      d == e + IfdSize(Len(exif))
      entry0(t) ==
        CASE t = "model" -> IfdEntry(EXIF_TAG_MODEL, TIFF_TYPE_ASCII, 4, LE32(d))
          [] t = "time" -> IfdEntry(EXIF_TAG_DATE_TIME_ORIGINAL, TIFF_TYPE_ASCII, 5, LE32(d + 4))
          [] t = "exif" -> IfdEntry(EXIF_TAG_EXIF_OFFSET, 4, 1, LE32(e))
          [] t = "exiffar" -> IfdEntry(EXIF_TAG_EXIF_OFFSET, 4, 1, LE32(100000))
          [] t = "sub" -> IfdEntry(EXIF_TAG_SUBIFD_OFFSET, 4, 1, LE32(d + 36))
          [] t = "subs" -> IfdEntry(EXIF_TAG_SUBIFD_OFFSET, 4, 3, LE32(d + 40))
          [] t = "sub2" -> IfdEntry(EXIF_TAG_SUBIFD_OFFSET, 4, 2, LE32(d + 32))
          [] t = "modelin" -> IfdEntry(EXIF_TAG_MODEL, TIFF_TYPE_ASCII, 3, <<68, 53, 0, 0>>)
          [] OTHER -> IfdEntry(256, 3, 1, LE32(0))
      entry1(t) ==
        CASE t = "makernote" -> IfdEntry(EXIF_TAG_MAKERNOTE, 7, Len(mn), LE32(d + 44))
          [] t = "exposure" -> IfdEntry(EXIF_TAG_EXPOSURE_TIME, TIFF_TYPE_RATIONAL, 1, LE32(d + 12))
          [] t = "exposure3" -> IfdEntry(EXIF_TAG_EXPOSURE_TIME, 3, 1, LE32(d + 12))
          [] t = "fnumber" -> IfdEntry(EXIF_TAG_FNUMBER, TIFF_TYPE_RATIONAL, 1, LE32(d + 20))
          [] t = "metering" -> IfdEntry(EXIF_TAG_METERING_MODE, 3, 1, LE32(5))
          [] t = "focal" -> IfdEntry(EXIF_TAG_FOCAL_LENGTH, TIFF_TYPE_RATIONAL, 1, LE32(d + 28))
          [] OTHER -> IfdEntry(36864, 7, 4, <<48, 50, 51, 48>>)
  IN LE16(order) \o LE16(magic) \o LE32(SizeofTiffHeader)
     \o Ifd([k \in 1..Len(ifd0) |-> entry0(ifd0[k])], next)
     \o Ifd([k \in 1..Len(exif) |-> entry1(exif[k])], 0)
     \o <<67, 97, 109, 0>>
     \o <<50, 48, 50, 48, 0, 0, 0, 0>>
     \o LE32(1) \o LE32(den)
     \o LE32(28) \o LE32(10)
     \o LE32(50) \o LE32(1)
     \o <<0, 0, 0, 0>>
     \o LE32(d + 36)
     \o mn

\* the maker-note lists: every order of every choice among the four entries the
\* lens pass depends on, alone or behind the other entries
MnCore == {"serial", "shutter", "lenstype", "lensdata"}
MnOrders ==
  {s \in UNION {[1..n -> MnCore] : n \in 0..4} :
     \A j, k \in DOMAIN s : j # k => s[j] # s[k]}
MnOthers == <<"version", "quality", "focus", "iso", "other">>

GoodMn == MnBlock(MAKERNOTE_MAGIC, <<"serial", "shutter", "lenstype", "lensdata">>,
                  Version0204, 19, SerialLong)
BaseFile ==
  NefFile(TIFF_LITTLE_ENDIAN, TIFF_MAGIC, <<"model", "time", "sub", "exif">>, 0,
          <<"exposure", "fnumber", "metering", "focal", "makernote">>, 250, GoodMn)

HeaderFiles ==
  {NefFile(o, m, <<"model", "exif">>, 0, <<"fnumber", "makernote">>, 250, GoodMn) :
     o \in {TIFF_LITTLE_ENDIAN, TIFF_BIG_ENDIAN, 0}, m \in {TIFF_MAGIC, 43, 10752}}

Ifd0Lists ==
  { <<"model", "time", "sub", "exif">>, <<"exif">>, <<"model", "time">>, <<>>,
    <<"subs", "exif", "other">>, <<"model", "exiffar">>, <<"exif", "model", "sub">> }
ExifLists ==
  { <<"exposure", "fnumber", "metering", "focal", "makernote">>, <<"makernote">>,
    <<"fnumber", "focal">>, <<>>, <<"exposure3", "other", "makernote">> }
Signatures ==
  { MAKERNOTE_MAGIC, <<78, 105, 107, 111, 122, 0>>, <<67, 97, 110, 111, 110, 0>>,
    <<78, 105, 107, 111, 110, 50>> }

TopFiles ==
  {NefFile(TIFF_LITTLE_ENDIAN, TIFF_MAGIC, l0, nx, l1, dn,
           MnBlock(sg, <<"shutter", "quality", "lensdata">>, Version0100, 19, SerialLong)) :
     l0 \in Ifd0Lists, nx \in {0, 4096}, l1 \in ExifLists, dn \in {250, 0}, sg \in Signatures}

MnFiles ==
  {NefFile(TIFF_LITTLE_ENDIAN, TIFF_MAGIC, <<"model", "exif">>, 0, <<"fnumber", "makernote">>,
           250, MnBlock(MAKERNOTE_MAGIC, tg, vs, 19, sr)) :
     tg \in MnOrders, vs \in {Version0100, Version0204, VersionNeg},
     sr \in {SerialLong, SerialShort, SerialAlpha}}
  \cup
  {NefFile(TIFF_LITTLE_ENDIAN, TIFF_MAGIC, <<"exif">>, 0, <<"makernote">>, 250,
           MnBlock(MAKERNOTE_MAGIC, pre \o tg, vs, lc, SerialLong)) :
     pre \in {MnOthers, <<"balance">>, <<"iso0">>},
     tg \in {<<"serial", "shutter", "lenstype", "lensdata">>,
             <<"lensdata", "lenstype", "shutter", "serial">>, <<"lensdata">>, <<>>},
     vs \in {Version0100, Version0204}, lc \in {19, 4, 2}}

\* files whose IFD0 holds a model of three bytes inside its value field, and a
\* sub-IFD entry of two LONGs
InlineFiles ==
  {NefFile(TIFF_LITTLE_ENDIAN, TIFF_MAGIC, l0, 0, <<"fnumber", "makernote">>, 250, GoodMn) :
     l0 \in { <<"modelin", "exif">>, <<"sub2", "time", "exif">> }}

TruncatedFiles == {SubSeq(BaseFile, 1, n) : n \in 0..Len(BaseFile)}

Inputs == HeaderFiles \cup TopFiles \cup MnFiles \cup InlineFiles \cup TruncatedFiles

Init ==
  /\ buffer \in Inputs
  /\ pc = "Start"
  /\ i = 0 /\ offset = 0
  /\ subifd_offset = 0 /\ exif_offset = 0 /\ makernote_offset = 0 /\ tiff_offset = 0
  /\ lens_data = <<>> /\ lens_type = 0 /\ shutter_count = 0 /\ serial_number = <<>>
  /\ out = <<>> /\ err = <<>> /\ oob = 0 /\ decrypt_calls = <<>>
  /\ CipherIdle
  /\ LookupIdle

Next ==
  \/ ValidateHeader
  \/ IFD0Entry
  \/ IFD0Exit
  \/ LocateExif
  \/ ExifEntry
  \/ ExifExit
  \/ LocateMakernote
  \/ ValidateMakernote
  \/ MakernoteEntry
  \/ MakernoteExit
  \/ ResolveLens
  \/ SkipLens
  \/ Finish
  \/ Crash

Spec == Init /\ [][Next]_vars

(***************************************************************************)
(* The claims.                                                             *)
(***************************************************************************)
\* the fields of the header of a buffer that holds them, read byte by byte
FileOrder == buffer[1] + 256 * buffer[2]
FileMagic == buffer[3] + 256 * buffer[4]
HasHeaderFields == Len(buffer) >= 4
WellFormedHeader == FileOrder = TIFF_LITTLE_ENDIAN /\ FileMagic = TIFF_MAGIC

\* C1: for a buffer that holds the byte-order and magic fields, the header step
\* goes on to the walk of IFD0 exactly when the byte order is 0x4949 and the
\* magic is 0x2A; for every other pair it reports "Invalid NEF." and ends, and
\* a run that reported it has walked no IFD and printed no field.
C1_HeaderValidation ==
  /\ [][(pc = "Start" /\ pc' # pc /\ HasHeaderFields) =>
          IF WellFormedHeader
            THEN pc' = "HeaderValidated" /\ err' = err /\ out' = out
            ELSE pc' = "Done" /\ err' = <<ErrInvalidNef>> /\ out' = <<>>]_vars
  /\ []((\E k \in DOMAIN err : err[k] = ErrInvalidNef) =>
          /\ pc = "Done" /\ out = <<>> /\ i = 0
          /\ exif_offset = 0 /\ subifd_offset = 0 /\ makernote_offset = 0)

\* C1 witness: a run that ended on a big-endian header with the right magic
C1_Witness ==
  /\ pc = "Done" /\ err = <<ErrInvalidNef>> /\ out = <<>>
  /\ HasHeaderFields /\ FileOrder = TIFF_BIG_ENDIAN /\ FileMagic = TIFF_MAGIC

\* the place of a phase in the order of the claim; a stopped process has left it
PhaseRank(p) ==
  CASE p = "Start" -> 1
    [] p = "HeaderValidated" -> 2
    [] p = "IFD0Walked" -> 3
    [] p = "ExifLocated" -> 4
    [] p = "ExifWalked" -> 5
    [] p = "MakernoteLocated" -> 6
    [] p = "MakernoteValidated" -> 7
    [] p = "MakernoteWalked" -> 8
    [] p = "LensResolved" -> 9
    [] p = "Done" -> 10
    [] OTHER -> 11

\* C2: every change of phase goes to a later phase of the order Start,
\* HeaderValidated, IFD0Walked, ExifLocated, ExifWalked, MakernoteLocated,
\* MakernoteValidated, MakernoteWalked, LensResolved, Done, so no phase is
\* entered twice and none after a later one.
C2_PhaseOrder == [][pc' # pc => PhaseRank(pc') > PhaseRank(pc)]_vars

\* C2 witness: a run through all ten phases of a file that announces another
\* IFD behind IFD0
C2_Witness ==
  /\ pc = "Done" /\ err = <<>> /\ oob = 0
  /\ \E k \in DOMAIN out : out[k].field = "Camera Lens"
  /\ HasHeaderFields
  /\ Rd32(SizeofTiffHeader + 2 + SizeofIfdEntry * Rd16(SizeofTiffHeader, 0, 0), 0, 0) # 0

\* C3: no step reads or writes a byte outside the buffer.
C3_NoAccessOutsideBuffer == oob = 0

\* C4: an entry of the Exif IFD is dispatched, and the walk of the Exif IFD
\* ends, only when the Exif offset recorded from IFD0 is not 0 and the IFD at
\* it starts inside the buffer.
C4_ExifWalkedOnlyWhenLocated ==
  [][(pc = "ExifLocated" /\ (i' # i \/ pc' = "ExifWalked")) =>
       (exif_offset # 0 /\ RangeIn(exif_offset, 0, 2))]_vars

\* whether entry k of the IFD at address base carries tag
EntryHasTag(base, k, tag) ==
  /\ RangeIn(base, EntryDisp(k), 2)
  /\ buffer[base + EntryDisp(k) + 1] + 256 * buffer[base + EntryDisp(k) + 2] = tag

\* whether the IFD at address base, which lies in the buffer, has an entry tag
IfdHasTag(base, tag) ==
  /\ RangeIn(base, 0, 2)
  /\ \E k \in 0..(buffer[base + 1] + 256 * buffer[base + 2] - 1) : EntryHasTag(base, k, tag)

MakernoteIfd == Add32(makernote_offset, SizeofMakernoteHeader)

\* the step of the lens pass on a maker-note with a lens-data entry
LensPassStep == pc = "MakernoteWalked" /\ pc' = "LensResolved" /\ lens_data # <<>>

\* C5: when the maker-note IFD has a lens-data entry but no serial-number entry,
\* or no shutter-count entry, the lens pass does not call decrypt, leaves the
\* buffer as it is and reports the lens as unknown.
C5_NoDecryptWithoutKeys ==
  [][(/\ LensPassStep
      /\ \/ ~IfdHasTag(MakernoteIfd, NIKON_TAG_SERIAL_NUMBER)
         \/ ~IfdHasTag(MakernoteIfd, NIKON_TAG_SHUTTER_COUNT))
     => (/\ decrypt_calls' = decrypt_calls
         /\ buffer' = buffer
         /\ out' = Append(out, LensLine(NoLensId)))]_vars

\* the fields main prints from IFD0 and from the Exif IFD
Ifd0ExifFields ==
  {"Camera Model", "Time Stamp", "Shutter Speed", "Aperature", "Metering Mode", "Focal Length"}

\* the five bytes at the maker-note offset lie in the buffer and are not "Nikon"
SignatureDiffers ==
  /\ RangeIn(makernote_offset, 0, 5)
  /\ \E k \in 1..5 : buffer[makernote_offset + k] # MAKERNOTE_MAGIC[k]

\* C6: when the bytes at the maker-note offset are not "Nikon", the signature
\* test ends the parse without walking the maker-note IFD: "Invalid Makernote."
\* is reported, every field printed from IFD0 and the Exif IFD stays, no other
\* field is printed, decrypt is not called and the process is not stopped.
C6_InvalidSignature ==
  [][(pc = "MakernoteLocated" /\ pc' # pc /\ SignatureDiffers) =>
       (/\ pc' = "Done"
        /\ out' = out
        /\ buffer' = buffer
        /\ err' = Append(err, ErrInvalidMakernote)
        /\ \A k \in DOMAIN out' : out'[k].field \in Ifd0ExifFields
        /\ decrypt_calls' = <<>>)]_vars

\* C6 witness: a parse that ended on the signature "Nikoz" with the model and
\* the aperture printed
C6_Witness ==
  /\ pc = "Done"
  /\ makernote_offset > 0 /\ SignatureDiffers
  /\ \A k \in 1..4 : buffer[makernote_offset + k] = MAKERNOTE_MAGIC[k]
  /\ Len(err) > 0 /\ err[Len(err)] = ErrInvalidMakernote
  /\ \E k \in DOMAIN out : out[k].field = "Camera Model"
  /\ \E k \in DOMAIN out : out[k].field = "Aperature"
  /\ \A k \in DOMAIN out : out[k].field \in Ifd0ExifFields

\* C7: a parse of a file with a well-formed header, no access outside the
\* buffer and an Exif IFD without a maker-note entry ends with no error
\* reported and only fields of IFD0 and the Exif IFD printed.
C7_NoErrorWithoutMakernote ==
  (/\ pc = "Done"
   /\ HasHeaderFields /\ WellFormedHeader
   /\ oob = 0
   /\ exif_offset # 0
   /\ RangeIn(exif_offset, 0, 2)
   /\ ~IfdHasTag(exif_offset, EXIF_TAG_MAKERNOTE))
  => (err = <<>> /\ \A k \in DOMAIN out : out[k].field \in Ifd0ExifFields)

\* C8: decrypt applied twice with the same serial number and shutter count
\* gives back the bytes it started from, and each application keeps the length.
C8_DecryptTwice ==
  /\ Len(c_out) = Len(c_data)
  /\ c_pass = 2 => c_out = c_data

\* C8 witness: the long block after two applications, the first of which
\* changed it
C8_Witness ==
  /\ c_pass = 2
  /\ Len(c_data) = LongDataLen
  /\ c_out = c_data
  /\ Decrypt(c_data, c_serial, c_shutter) # c_data

\* a serial number written with decimal digits only
IsDecimal(s) == Len(s) > 0 /\ \A k \in 1..Len(s) : s[k] \in 48..57

RECURSIVE DecValue(_)
\* the number a string of at most eight decimal digits writes
DecValue(ds) ==
  IF Len(ds) = 0 THEN 0
  ELSE 10 * DecValue(SubSeq(ds, 1, Len(ds) - 1)) + (ds[Len(ds)] - 48)

\* the number a decimal string writes, mod 256: 10^8 is a multiple of 256, so
\* its last eight digits decide
RefSerialMod256(s) ==
  DecValue(SubSeq(s, IF Len(s) > 8 THEN Len(s) - 7 ELSE 1, Len(s))) % 256

\* cj after k bytes of the reference keystream: ck has gone through 0x60,
\* 0x60 + 1, ..., 0x60 + k - 1 (mod 256), and cj has gained ci * ck each time
RefCj(cj0, ci, k) == (cj0 + ci * (CK_INIT * k + (k * (k - 1)) \div 2)) % 256

\* C9: for a serial number in decimal digits, one application of decrypt gives
\* at every position k the input byte XOR the reference keystream, seeded with
\* ci = xlat[0][serial mod 256], cj = xlat[1][XOR of the shutter-count bytes]
\* and ck = 0x60.
C9_ReferenceKeystream ==
  (c_pass = 1 /\ IsDecimal(c_serial)) =>
    /\ Len(c_out) = Len(c_data)
    /\ \A k \in 1..Len(c_data) :
         c_out[k] = Xor(c_data[k],
                        RefCj(xlat1[Xor(Xor(ByteOf(c_shutter, 0), ByteOf(c_shutter, 1)),
                                        Xor(ByteOf(c_shutter, 2), ByteOf(c_shutter, 3))) + 1],
                              xlat0[RefSerialMod256(c_serial) + 1], k))

\* the address of the lens-data block, and its length, as the lens-data entry
\* gives them
LensBlockAt ==
  Add32(Add32(makernote_offset, tiff_offset),
        Rd32(MakernoteIfd, EntryDisp(lens_data[1]) + ValueOff, 0))
LensBlockLen == Rd32(MakernoteIfd, EntryDisp(lens_data[1]) + CountOff, 0)

\* the four characters of the version prefix of the block, parsed as an integer
LensBlockVersion == Atoi(SubSeq(buffer, LensBlockAt + 1, LensBlockAt + 4))

\* C10: for a lens-data block with its entry and its four version characters
\* inside the buffer, the lens pass changes a byte only when the version is 201
\* or more, and then only a byte of the block behind the four characters.
C10_DecryptOnlyFrom0201 ==
  [][(/\ LensPassStep
      /\ RangeIn(MakernoteIfd, EntryDisp(lens_data[1]), SizeofIfdEntry)
      /\ RangeIn(LensBlockAt, 0, 4)
      /\ \A k \in 1..4 : buffer[LensBlockAt + k] # 0)
     => (/\ Len(buffer') = Len(buffer)
         /\ LensBlockVersion < LENS_DATA_0201 => buffer' = buffer
         /\ \A a \in 1..Len(buffer) :
              buffer'[a] # buffer[a] =>
                /\ LensBlockVersion >= LENS_DATA_0201
                /\ a > LensBlockAt + 4
                /\ LensBlockLen >= 0 /\ a <= LensBlockAt + LensBlockLen)]_vars

\* C11: a step changes a byte of the buffer only inside the lens-data block,
\* the count bytes from the address the lens-data entry gives, whatever the
\* count of the entry is.
C11_WritesInsideLensData ==
  [][buffer' # buffer =>
       (/\ lens_data # <<>>
        /\ Len(buffer') = Len(buffer)
        /\ \A a \in 1..Len(buffer) :
             buffer'[a] # buffer[a] =>
               /\ a > LensBlockAt
               /\ LensBlockLen >= 0 /\ a <= LensBlockAt + LensBlockLen)]_vars

\* entry i of the Exif IFD lies in the buffer, is an exposure-time, F-number or
\* focal-length entry of type RATIONAL, and the two dwords its value points to
\* lie in the buffer with a denominator of 0
ZeroDenominatorEntry ==
  /\ pc = "ExifLocated"
  /\ RangeIn(exif_offset, 0, 2)
  /\ i < Rd16(exif_offset, 0, 0)
  /\ RangeIn(exif_offset, EntryDisp(i), SizeofIfdEntry)
  /\ Rd16(exif_offset, EntryDisp(i) + TagOff, 0)
       \in {EXIF_TAG_EXPOSURE_TIME, EXIF_TAG_FNUMBER, EXIF_TAG_FOCAL_LENGTH}
  /\ Rd16(exif_offset, EntryDisp(i) + TypeOff, 0) = TIFF_TYPE_RATIONAL
  /\ RangeIn(DwordAddr(Rd32(exif_offset, EntryDisp(i) + ValueOff, 0)), 0, 8)
  /\ Rd32(DwordAddr(Rd32(exif_offset, EntryDisp(i) + ValueOff, 0)), 4, 0) = 0

\* C12: the dispatch of a RATIONAL entry with denominator 0 reports an error and
\* prints no exposure time, aperture or focal length from it.
C12_ZeroDenominatorFails ==
  [][(ZeroDenominatorEntry /\ i' = i + 1) => (out' = out /\ Len(err') > Len(err))]_vars

\* the dispatch of entry i of the maker-note IFD, an ISO-info entry whose
\* payload byte lies in the buffer and is raw
IsoEntryStep(raw) ==
  /\ pc = "MakernoteValidated"
  /\ i' = i + 1
  /\ RangeIn(MakernoteIfd, 0, 2)
  /\ i < Rd16(MakernoteIfd, 0, 0)
  /\ RangeIn(MakernoteIfd, EntryDisp(i), SizeofIfdEntry)
  /\ Rd16(MakernoteIfd, EntryDisp(i) + TagOff, 0) = NIKON_TAG_ISO_INFO
  /\ LET at == Add32(Add32(makernote_offset, tiff_offset),
                     Rd32(MakernoteIfd, EntryDisp(i) + ValueOff, 0))
     IN RangeIn(at, 0, 1) /\ buffer[at + 1] = raw

\* C13 as amended: the ISO-info entry prints ISO 100 for the raw byte 60 and
\* ISO 10 for the raw byte 0 (100 * 2^(-5) = 3.125, cut to 3 and rounded up to
\* the next multiple of 10).
C13_IsoOfRaw60Is100 ==
  [][/\ IsoEntryStep(60) => out' = Append(out, OutNum("Image ISO", 100))
     /\ IsoEntryStep(0) => out' = Append(out, OutNum("Image ISO", 10))]_vars

\* C13 witness: a parse that printed the ISO of a raw byte 0
C13_Witness ==
  /\ pc = "Done"
  /\ \E k \in DOMAIN out : out[k].field = "Image ISO" /\ out[k].n = 10

\* C13 as stated: the ISO-info entry prints ISO 100 for the raw byte 0.
C13_IsoOfRaw0Is100 ==
  [][IsoEntryStep(0) => out' = Append(out, OutNum("Image ISO", 100))]_vars

\* whether table entry k has the key as its tag, byte for byte
TagIsKey(k, key) == \A p \in 1..8 : nikon_lens_id_table[k].tag[p] = key[p]

\* C14: the lookup returns the name of the first table entry whose tag equals
\* the key in all 8 bytes, and NULL when no entry does.
C14_LookupExactMatch ==
  l_done =>
    IF \E k \in 1..Len(nikon_lens_id_table) : TagIsKey(k, l_key)
      THEN \E k \in 1..Len(nikon_lens_id_table) :
             /\ TagIsKey(k, l_key)
             /\ \A j \in 1..(k - 1) : ~TagIsKey(j, l_key)
             /\ l_model = nikon_lens_id_table[k].id
      ELSE l_model = NoLensId

\* C14 witness: the lookup of a key that differs from a tag of the table in its
\* last byte only found nothing
C14_Witness ==
  /\ l_done
  /\ l_model = NoLensId
  /\ \E k \in 1..Len(nikon_lens_id_table) :
       /\ \A p \in 1..7 : nikon_lens_id_table[k].tag[p] = l_key[p]
       /\ nikon_lens_id_table[k].tag[8] # l_key[8]

\* the serial-number string the maker-note walk recorded, for one that lies in
\* the buffer with its terminating zero
SerialText == SubSeq(buffer, serial_number[1] + 1, serial_number[1] + StrLen(serial_number[1]))

\* the lens pass is about to decrypt a block that lies in the buffer, with a
\* serial-number string that is not a decimal number
MalformedSerialAtLensPass ==
  /\ pc = "MakernoteWalked"
  /\ lens_data # <<>>
  /\ RangeIn(MakernoteIfd, EntryDisp(lens_data[1]), SizeofIfdEntry)
  /\ LensBlockLen > 4
  /\ RangeIn(LensBlockAt, 0, LensBlockLen)
  /\ UGe(LensBlockVersion, LENS_DATA_0201)
  /\ serial_number # <<>>
  /\ StrLen(serial_number[1]) >= 0
  /\ ~IsDecimal(SerialText)

\* C15: when the serial-number string is not a decimal number, the lens pass
\* leaves the lens-data bytes as they were and prints no lens model.
C15_MalformedSerialFails ==
  [][(MalformedSerialAtLensPass /\ pc' = "LensResolved") =>
       (buffer' = buffer /\ out' = out)]_vars

\* the bytes of a value field read as a string held inline: up to its first
\* zero byte
InlineText(bs) ==
  IF \E k \in 1..Len(bs) : bs[k] = 0
    THEN SubSeq(bs, 1, (CHOOSE k \in 1..Len(bs) :
                          bs[k] = 0 /\ \A j \in 1..(k - 1) : bs[j] # 0) - 1)
    ELSE bs

\* the walk of IFD0 decodes its entry i, which lies in the buffer and has the
\* given tag and type
Ifd0Decodes(tag, type) ==
  /\ pc = "HeaderValidated"
  /\ i' = i + 1
  /\ RangeIn(0, 4, 4)
  /\ RangeIn(Rd32(0, 4, 0), 0, 2)
  /\ i < Rd16(Rd32(0, 4, 0), 0, 0)
  /\ RangeIn(Rd32(0, 4, 0), EntryDisp(i), SizeofIfdEntry)
  /\ Rd16(Rd32(0, 4, 0), EntryDisp(i) + TagOff, 0) = tag
  /\ Rd16(Rd32(0, 4, 0), EntryDisp(i) + TypeOff, 0) = type

Ifd0Count == Rd32(Rd32(0, 4, 0), EntryDisp(i) + CountOff, 0)
Ifd0Value == Rd32(Rd32(0, 4, 0), EntryDisp(i) + ValueOff, 0)
Ifd0ValueBytes ==
  SubSeq(buffer, Rd32(0, 4, 0) + EntryDisp(i) + ValueOff + 1,
         Rd32(0, 4, 0) + EntryDisp(i) + ValueOff + 4)

\* what the walk of IFD0 prints for an ASCII entry read by the rule: the text
\* in the value field for up to 4 bytes, the text at the offset for more
Ifd0TextByRule(field) ==
  out' = Append(out, OutStr(field,
                            IF ULt(4, Ifd0Count) THEN CStr(Norm(Ifd0Value, 0), 0)
                            ELSE InlineText(Ifd0ValueBytes)))

\* C16: the walk of IFD0 reads the value field of a Model, DateTimeOriginal or
\* Sub-IFD entry as the value itself exactly when count times the size of the
\* type is at most 4 bytes, and as the offset of the value otherwise.
C16_InlineExactlyUpTo4Bytes ==
  [][/\ Ifd0Decodes(EXIF_TAG_MODEL, TIFF_TYPE_ASCII) => Ifd0TextByRule("Camera Model")
     /\ Ifd0Decodes(EXIF_TAG_DATE_TIME_ORIGINAL, TIFF_TYPE_ASCII) => Ifd0TextByRule("Time Stamp")
     /\ Ifd0Decodes(EXIF_TAG_SUBIFD_OFFSET, 4) =>
          subifd_offset' = IF ULt(1, Ifd0Count) THEN Rd32(Ifd0Value, 0, 0) ELSE Ifd0Value]_vars

\* the entries of the maker-note IFD, numbered from 0, and the one carrying tag
MnEntries == Rd16(MakernoteIfd, 0, 0)
MnTagAt(k) == Rd16(MakernoteIfd, EntryDisp(k) + TagOff, 0)
MnEntryOf(tag) == CHOOSE k \in 0..(MnEntries - 1) : MnTagAt(k) = tag
MnValueOf(tag) == Rd32(MakernoteIfd, EntryDisp(MnEntryOf(tag)) + ValueOff, 0)

\* the maker-note IFD lies in the buffer and holds the serial-number, the
\* shutter-count, the lens-type and the lens-data tag once each, in any order
LensTagsOnce ==
  /\ RangeIn(MakernoteIfd, 0, 2)
  /\ RangeIn(MakernoteIfd, 0, 2 + SizeofIfdEntry * MnEntries)
  /\ \A tag \in {NIKON_TAG_SERIAL_NUMBER, NIKON_TAG_SHUTTER_COUNT, NIKON_TAG_LENS_TYPE,
                 NIKON_TAG_LENS_DATA} :
       Cardinality({k \in 0..(MnEntries - 1) : MnTagAt(k) = tag}) = 1

\* the lens-data entry stands before the serial-number and the shutter-count entry
LensDataFirst ==
  /\ MnEntryOf(NIKON_TAG_LENS_DATA) < MnEntryOf(NIKON_TAG_SERIAL_NUMBER)
  /\ MnEntryOf(NIKON_TAG_LENS_DATA) < MnEntryOf(NIKON_TAG_SHUTTER_COUNT)
  /\ MnEntryOf(NIKON_TAG_LENS_DATA) < MnEntryOf(NIKON_TAG_LENS_TYPE)

\* C17: after the lens pass of a run without undefined behaviour, whatever the
\* order of the four entries in the maker-note IFD, decrypt was called with
\* the serial number and the shutter count of their entries, and the lens model
\* printed is the one looked up with the value of the lens-type entry as the
\* last byte of the key.
C17_OrderIndependent ==
  (pc = "LensResolved" /\ oob = 0 /\ LensTagsOnce) =>
    /\ lens_data = <<MnEntryOf(NIKON_TAG_LENS_DATA)>>
    /\ shutter_count = MnValueOf(NIKON_TAG_SHUTTER_COUNT)
    /\ lens_type = MnValueOf(NIKON_TAG_LENS_TYPE) % 256
    /\ UGe(LensBlockVersion, LENS_DATA_0201) =>
         /\ Len(decrypt_calls) = 1
         /\ decrypt_calls[1].shutter_count = MnValueOf(NIKON_TAG_SHUTTER_COUNT)
         /\ decrypt_calls[1].serial_number =
              <<get_makernote_string(MakernoteIfd,
                                     EntryDisp(MnEntryOf(NIKON_TAG_SERIAL_NUMBER)), 0).ptr>>
    /\ out[Len(out)] =
         LensLine(nikon_lens_id_lookup(
                    LensId(buffer, Add32(LensBlockAt, LENS_ID_OFFSET),
                           MnValueOf(NIKON_TAG_LENS_TYPE) % 256, 0)))

\* C17 witness: the lens pass has decrypted the block of a maker-note whose
\* lens-data entry stands before the three entries it depends on, and has
\* resolved a lens model of the table
C17_Witness ==
  /\ pc = "LensResolved" /\ oob = 0 /\ LensTagsOnce
  /\ LensDataFirst
  /\ Len(decrypt_calls) = 1
  /\ decrypt_calls[1].shutter_count # 0
  /\ out[Len(out)] = LensLine(nikon_lens_id_table[2].id)

\* the address the value of a maker-note entry refers to: the offset of the
\* maker-note block, plus the position of the nested TIFF header in the block,
\* plus the value
MnAddress(value) ==
  Add32(Add32(makernote_offset, SizeofMakernoteHeader - SizeofTiffHeader), value)

\* the walk of the maker-note IFD decodes its entry i, which lies in the buffer
\* and has the given tag
MnDecodes(tag) ==
  /\ pc = "MakernoteValidated"
  /\ i' = i + 1
  /\ RangeIn(MakernoteIfd, 0, 2)
  /\ i < Rd16(MakernoteIfd, 0, 0)
  /\ RangeIn(MakernoteIfd, EntryDisp(i), SizeofIfdEntry)
  /\ Rd16(MakernoteIfd, EntryDisp(i) + TagOff, 0) = tag

MnType == Rd16(MakernoteIfd, EntryDisp(i) + TypeOff, 0)
MnCount == Rd32(MakernoteIfd, EntryDisp(i) + CountOff, 0)
MnValue == Rd32(MakernoteIfd, EntryDisp(i) + ValueOff, 0)

\* entry i is an ASCII entry of more than 4 characters whose text lies in the
\* buffer at the address its value refers to
MnLongText ==
  /\ MnType = TIFF_TYPE_ASCII
  /\ ULt(4, MnCount)
  /\ PtrIn(MnAddress(MnValue), 0)
  /\ StrLen(MnAddress(MnValue)) >= 0

MnTextAt(field) == out' = Append(out, OutStr(field, CStr(MnAddress(MnValue), 0)))

\* C18: the text of an ASCII entry of more than 4 characters, the payload byte
\* of the ISO-info entry and the lens-data block are all read at the offset of
\* the maker-note block plus the position of its nested TIFF header plus the
\* value of the entry.
C18_MakernoteRelativeBase ==
  [][/\ (MnDecodes(NIKON_TAG_FOCUS_MODE) /\ MnLongText) => MnTextAt("Focus Mode")
     /\ (MnDecodes(NIKON_TAG_QUALITY) /\ MnLongText) => MnTextAt("Quality")
     /\ (MnDecodes(NIKON_TAG_WHITE_BALANCE) /\ MnLongText) => MnTextAt("White Balance")
     /\ (MnDecodes(NIKON_TAG_SERIAL_NUMBER) /\ MnLongText) =>
          /\ MnTextAt("Camera Serial Number")
          /\ serial_number' = <<MnAddress(MnValue)>>
     /\ (MnDecodes(NIKON_TAG_ISO_INFO) /\ PtrIn(MnAddress(MnValue), 0)) =>
          /\ offset' = MnAddress(MnValue)
          /\ out' = Append(out, OutNum("Image ISO", IsoOf(buffer[MnAddress(MnValue) + 1])))
     /\ (LensPassStep /\ RangeIn(MakernoteIfd, EntryDisp(lens_data[1]), SizeofIfdEntry)) =>
          /\ offset' = MnAddress(Rd32(MakernoteIfd, EntryDisp(lens_data[1]) + ValueOff, 0))
          /\ \A k \in (Len(decrypt_calls) + 1)..Len(decrypt_calls') :
               decrypt_calls'[k].data =
                 Add32(MnAddress(Rd32(MakernoteIfd, EntryDisp(lens_data[1]) + ValueOff, 0)), 4)]_vars

\* C18 witness: a parse that printed a serial number and a quality text of more
\* than 4 characters and an ISO, and decrypted a lens-data block
C18_Witness ==
  /\ pc = "LensResolved" /\ oob = 0
  /\ Len(decrypt_calls) = 1
  /\ \E k \in DOMAIN out : out[k].field = "Image ISO" /\ out[k].n = 100
  /\ \E k \in DOMAIN out : out[k].field = "Quality" /\ out[k].s = QualityText
  /\ \E k \in DOMAIN out : out[k].field = "Camera Serial Number" /\ out[k].s = SerialLong

====
